---- MODULE Spec2Model ----
(***************************************************************************)
(* Evacuation routing server (server.js): the routing kernel               *)
(* (findPosition, createFireZoneMap, isValidMove, findPath,                *)
(* generateNaturalInstructions, updateInstructions) as operators, and the  *)
(* Firestore snapshot listener with exponentialBackoff as a state machine. *)
(*                                                                         *)
(* Conventions: a layout string is a sequence of one-character strings; a  *)
(* map is a sequence of rows; positions are records [x, y], 0-based as in  *)
(* the source.  A JavaScript null / undefined is the empty sequence <<>>   *)
(* (None) and a present value v is <<v>> (Some(v)); a path is a non-empty  *)
(* sequence of positions, so the "no path" null is <<>> as well.           *)
(*                                                                         *)
(* Specifications: Spec / FairSpec (the listener), PlanSpec (one planner   *)
(* run on an enumerated map, up to the stamped layout), GenSpec            *)
(* (generateNaturalInstructions on an enumerated path), BackoffSpec        *)
(* (exponentialBackoff with an operation that may throw at every call).    *)
(***************************************************************************)
EXTENDS Integers, Sequences, FiniteSets, TLC

\* ------------------------------------------------------------------ bounds
MaxW == 3
MaxH == 2
MaxObstacles == 2
MaxExternal == 1
MaxSteps == 5
MaxRetriesArg == 5
MaxCounted == 3

\* --------------------------------------------------------------- constants
\* exponentialBackoff's default parameters.
maxRetries == 5
baseDelay == 1000

\* ------------------------------------------------------- values and helpers
None == <<>>
Some(v) == <<v>>

Pos(x, y) == [x |-> x, y |-> y]

Cell(map, x, y) == map[y + 1][x + 1]

SetCell(map, x, y, c) == [map EXCEPT ![y + 1][x + 1] = c]

Abs(n) == IF n < 0 THEN -n ELSE n

\* ------------------------------------------------------------ findPosition
RECURSIVE findPositionFrom(_, _, _, _)
findPositionFrom(map, target, x, y) ==
    IF y >= Len(map) THEN None
    ELSE IF x >= Len(map[y + 1]) THEN findPositionFrom(map, target, 0, y + 1)
    ELSE IF Cell(map, x, y) = target THEN Some(Pos(x, y))
    ELSE findPositionFrom(map, target, x + 1, y)

findPosition(map, target) == findPositionFrom(map, target, 0, 0)

\* ------------------------------------------------------- createFireZoneMap
\* The (dy, dx) pairs of the two inner loops, in loop order.
ZoneOffsets ==
    << <<-1, -1>>, <<-1, 0>>, <<-1, 1>>,
       << 0, -1>>, << 0, 0>>, << 0, 1>>,
       << 1, -1>>, << 1, 0>>, << 1, 1>> >>

\* The code under mutation: the buffer test reads the cell and rewrites it
\* whatever its code is.
MarkZoneCell_NoGuard(map, fireZoneMap, newX, newY) ==
    IF newX >= 0 /\ newX < Len(map[1]) /\ newY >= 0 /\ newY < Len(map)
    THEN SetCell(fireZoneMap, newX, newY, "Z")
    ELSE fireZoneMap

\* One neighbour of a fire cell: in bounds and neither fire nor wall in the
\* map being built, it becomes "Z".
MarkZoneCell(map, fireZoneMap, newX, newY) ==
    IF newX >= 0 /\ newX < Len(map[1]) /\ newY >= 0 /\ newY < Len(map)
    THEN IF Cell(fireZoneMap, newX, newY) # "F" /\ Cell(fireZoneMap, newX, newY) # "0"
         THEN SetCell(fireZoneMap, newX, newY, "Z")
         ELSE fireZoneMap
    ELSE fireZoneMap

RECURSIVE MarkZoneAround(_, _, _, _, _)
MarkZoneAround(map, fireZoneMap, x, y, k) ==
    IF k > Len(ZoneOffsets) THEN fireZoneMap
    ELSE MarkZoneAround(map,
                        MarkZoneCell(map, fireZoneMap,
                                     x + ZoneOffsets[k][2], y + ZoneOffsets[k][1]),
                        x, y, k + 1)

RECURSIVE ScanFire(_, _, _, _)
ScanFire(map, fireZoneMap, x, y) ==
    IF y >= Len(map) THEN fireZoneMap
    ELSE IF x >= Len(map[y + 1]) THEN ScanFire(map, fireZoneMap, 0, y + 1)
    ELSE IF Cell(map, x, y) = "F"
         THEN ScanFire(map, MarkZoneAround(map, fireZoneMap, x, y, 1), x + 1, y)
         ELSE ScanFire(map, fireZoneMap, x + 1, y)

\* The call with its effect on the argument: fireZoneMap starts as a copy of
\* the rows (map.map(row => [...row])) and is the only array written, so
\* the caller's map is what it was.
createFireZoneMapRun(map) ==
    [map |-> map, fireZoneMap |-> ScanFire(map, map, 0, 0)]

createFireZoneMap(map) == createFireZoneMapRun(map).fireZoneMap

\* -------------------------------------------------------------- isValidMove
\* The code under mutation: hazard-buffer cells pass whatever the flag says.
isValidMove_IgnoreZone(map, fireZoneMap, x, y, allowFireZone) ==
    IF x < 0 \/ x >= Len(map[1]) \/ y < 0 \/ y >= Len(map) THEN FALSE
    ELSE IF Cell(map, x, y) = "0" \/ Cell(map, x, y) = "F" THEN FALSE
    ELSE TRUE

\* The code under mutation: a cell that carries a path marker is not
\* enterable.
isValidMove_PathBlocked(map, fireZoneMap, x, y, allowFireZone) ==
    IF x < 0 \/ x >= Len(map[1]) \/ y < 0 \/ y >= Len(map) THEN FALSE
    ELSE IF Cell(map, x, y) = "0" \/ Cell(map, x, y) = "F" \/ Cell(map, x, y) = "P"
    THEN FALSE
    ELSE IF ~allowFireZone /\ Cell(fireZoneMap, x, y) = "Z" THEN FALSE
    ELSE TRUE

isValidMove(map, fireZoneMap, x, y, allowFireZone) ==
    IF x < 0 \/ x >= Len(map[1]) \/ y < 0 \/ y >= Len(map) THEN FALSE
    ELSE IF Cell(map, x, y) = "0" \/ Cell(map, x, y) = "F" THEN FALSE
    ELSE IF ~allowFireZone /\ Cell(fireZoneMap, x, y) = "Z" THEN FALSE
    ELSE TRUE

\* ------------------------------------------------------- calculateHeuristic
calculateHeuristic(a, b) == Abs(a.x - b.x) + Abs(a.y - b.y)

\* ------------------------------------------------------------------ findPath
\* A search node; parent is None or Some(node).  A node is referenced as a
\* parent only after it left the open set, and only open-set nodes are
\* written, so the reference is the value.
Node(pos, g, h, f, parent, crossings) ==
    [pos |-> pos, g |-> g, h |-> h, f |-> f, parent |-> parent,
     fireZoneCrossings |-> crossings]

\* The code under mutation: the moves array lists south before east.
Moves_SouthFirst == << <<-1, 0>>, <<0, 1>>, <<0, -1>>, <<1, 0>> >>

\* { dx, dy } of the four moves, in the order of the moves array.
Moves == << <<-1, 0>>, <<1, 0>>, <<0, -1>>, <<0, 1>> >>

\* The code under mutation: the scan keeps the node with the greater f.
Precedes_GreaterF(a, b) ==
    a.f > b.f \/ (a.f = b.f /\ a.fireZoneCrossings < b.fireZoneCrossings)

\* The code under mutation: on equal f the scan keeps the node with more
\* crossings.
Precedes_MoreCrossings(a, b) ==
    a.f < b.f \/ (a.f = b.f /\ a.fireZoneCrossings > b.fireZoneCrossings)

\* The test of the selection scan: node a replaces the current choice b.
Precedes(a, b) ==
    a.f < b.f \/ (a.f = b.f /\ a.fireZoneCrossings < b.fireZoneCrossings)

RECURSIVE SelectCurrent(_, _, _)
SelectCurrent(openSet, i, currentIndex) ==
    IF i > Len(openSet) THEN currentIndex
    ELSE IF Precedes(openSet[i], openSet[currentIndex])
         THEN SelectCurrent(openSet, i + 1, i)
         ELSE SelectCurrent(openSet, i + 1, currentIndex)

\* The code under mutation: the walk stops at the first parent.
ReconstructPath_Short(node) ==
    IF node.parent = None THEN <<node.pos>>
    ELSE <<node.parent[1].pos, node.pos>>

\* path.push(current.pos) along the parent chain, then reverse().
RECURSIVE ReconstructPath(_)
ReconstructPath(node) ==
    IF node.parent = None THEN <<node.pos>>
    ELSE Append(ReconstructPath(node.parent[1]), node.pos)

\* openSet.splice(currentIndex, 1)
RemoveAt(seq, i) == SubSeq(seq, 1, i - 1) \o SubSeq(seq, i + 1, Len(seq))

\* The code under mutation: the lookup never finds the existing node.
FindOpen_Never(openSet, newPos, i) == 0

\* openSet.find(node at newX, newY): its index, 0 when there is none.
RECURSIVE FindOpen(_, _, _)
FindOpen(openSet, newPos, i) ==
    IF i > Len(openSet) THEN 0
    ELSE IF openSet[i].pos = newPos THEN i
    ELSE FindOpen(openSet, newPos, i + 1)

\* The frontier update test against an existing open node.
Improves(g, fireZoneCrossings, existingNode) ==
    g < existingNode.g
    \/ (g = existingNode.g /\ fireZoneCrossings < existingNode.fireZoneCrossings)

\* What entering the cell adds to fireZoneCrossings.
CrossingCost(fireZoneMap, newX, newY) ==
    IF Cell(fireZoneMap, newX, newY) = "Z" THEN 1 ELSE 0

\* One move out of current: the open set after it.
Relax(map, fireZoneMap, openSet, closedSet, current, end, allowFireZone, move) ==
    LET newX == current.pos.x + move[1]
        newY == current.pos.y + move[2]
        newPos == Pos(newX, newY)
    IN  IF ~isValidMove(map, fireZoneMap, newX, newY, allowFireZone) THEN openSet
        ELSE IF newPos \in closedSet THEN openSet
        ELSE LET g == current.g + 1
                 h == calculateHeuristic(newPos, end)
                 f == g + h
                 fireZoneCrossings ==
                     current.fireZoneCrossings + CrossingCost(fireZoneMap, newX, newY)
                 e == FindOpen(openSet, newPos, 1)
             IN  IF e = 0
                 THEN Append(openSet,
                             Node(newPos, g, h, f, Some(current), fireZoneCrossings))
                 ELSE IF Improves(g, fireZoneCrossings, openSet[e])
                      THEN [openSet EXCEPT
                                ![e] = Node(newPos, g, openSet[e].h, f, Some(current),
                                            fireZoneCrossings)]
                      ELSE openSet

RECURSIVE RelaxAll(_, _, _, _, _, _, _, _)
RelaxAll(map, fireZoneMap, openSet, closedSet, current, end, allowFireZone, k) ==
    IF k > Len(Moves) THEN openSet
    ELSE RelaxAll(map, fireZoneMap,
                  Relax(map, fireZoneMap, openSet, closedSet, current, end,
                        allowFireZone, Moves[k]),
                  closedSet, current, end, allowFireZone, k + 1)

\* The open set at the head of a loop iteration holds no two nodes of one
\* cell and no node of a cell in the closed set.
FrontierSound(openSet, closedSet) ==
    LET open == {openSet[i].pos : i \in 1 .. Len(openSet)}
    IN  Cardinality(open) = Len(openSet) /\ open \cap closedSet = {}

\* The while loop.  finalized lists the positions taken off the open set and
\* added to the closed set so far, in order, and sound tells whether
\* FrontierSound held at the head of every iteration so far (both are
\* history, the code keeps neither).  The result is [path, expanded,
\* finalized, sound], expanded being the number of iterations that finalized
\* a cell.
RECURSIVE SearchLoop(_, _, _, _, _, _, _, _)
SearchLoop(map, fireZoneMap, openSet, closedSet, end, allowFireZone, finalized, sound) ==
    LET ok == sound /\ FrontierSound(openSet, closedSet)
    IN  IF Len(openSet) = 0
        THEN [path |-> None, expanded |-> Len(finalized), finalized |-> finalized,
              sound |-> ok]
        ELSE LET currentIndex == SelectCurrent(openSet, 2, 1)
                 current == openSet[currentIndex]
             IN  IF current.pos.x = end.x /\ current.pos.y = end.y
                 THEN [path |-> ReconstructPath(current), expanded |-> Len(finalized),
                       finalized |-> finalized, sound |-> ok]
                 ELSE SearchLoop(map, fireZoneMap,
                                 RelaxAll(map, fireZoneMap,
                                          RemoveAt(openSet, currentIndex),
                                          closedSet \cup {current.pos}, current, end,
                                          allowFireZone, 1),
                                 closedSet \cup {current.pos}, end, allowFireZone,
                                 Append(finalized, current.pos), ok)

findPathRun(map, fireZoneMap, start, end, allowFireZone) ==
    SearchLoop(map, fireZoneMap,
               <<Node(start, 0, calculateHeuristic(start, end), 0, None, 0)>>,
               {}, end, allowFireZone, <<>>, TRUE)

findPath(map, fireZoneMap, start, end, allowFireZone) ==
    findPathRun(map, fireZoneMap, start, end, allowFireZone).path

\* ----------------------------------------------- generateNaturalInstructions
\* An instruction string, by its parts: "Go straight <meters> meters", with
\* " and turn <turn>" when turn is not "", or a fixed text (meters 0, no
\* turn).
Instruction(text, meters, turn) == [text |-> text, meters |-> meters, turn |-> turn]

ReachedExit == Instruction("You have reached the exit", 0, "")

NoPathInstruction ==
    Instruction("ERROR: No path to exit found. Seek immediate assistance!", 0, "")

\* null is "".
getDirection(from, to) ==
    IF to.x > from.x THEN "east"
    ELSE IF to.x < from.x THEN "west"
    ELSE IF to.y > from.y THEN "south"
    ELSE IF to.y < from.y THEN "north"
    ELSE ""

\* directions.indexOf(d): -1 when d is not a direction.
DirectionIndex(d) ==
    CASE d = "north" -> 0
      [] d = "east" -> 1
      [] d = "south" -> 2
      [] d = "west" -> 3
      [] OTHER -> -1

\* The code under mutation: right and left are exchanged.
getTurn_Mirrored(from, to) ==
    LET diff == (DirectionIndex(to) - DirectionIndex(from) + 4) % 4
    IN  IF diff = 1 THEN "left"
        ELSE IF diff = 3 THEN "right"
        ELSE IF diff = 2 THEN "around"
        ELSE ""

getTurn(from, to) ==
    LET diff == (DirectionIndex(to) - DirectionIndex(from) + 4) % 4
    IN  IF diff = 1 THEN "right"
        ELSE IF diff = 3 THEN "left"
        ELSE IF diff = 2 THEN "around"
        ELSE ""

addInstruction(instructions, distance, turn) ==
    Append(instructions, Instruction("Go straight", distance * 10, turn))

\* The for loop from index i (1-based here), then the final flush and the
\* closing instruction.
RECURSIVE InstructionLoop(_, _, _, _, _)
InstructionLoop(path, i, instructions, currentDirection, distance) ==
    IF i > Len(path)
    THEN Append(addInstruction(instructions, distance, ""), ReachedExit)
    ELSE LET newDirection == getDirection(path[i - 1], path[i])
         IN  IF newDirection # currentDirection
             THEN InstructionLoop(path, i + 1,
                                  IF currentDirection # ""
                                  THEN addInstruction(instructions, distance,
                                                      getTurn(currentDirection, newDirection))
                                  ELSE instructions,
                                  newDirection, 1)
             ELSE InstructionLoop(path, i + 1, instructions, currentDirection,
                                  distance + 1)

generateNaturalInstructions(path) == InstructionLoop(path, 2, <<>>, "", 0)

\* --------------------------------------------------------- updateInstructions
FireZoneWarning ==
    "WARNING: This path passes through fire zones. Proceed with extreme caution!"

NoSafePathWarning == "No safe path to exit available."

\* The code under mutation: the relaxed search is never run.
RelaxedIfNone_Never(fireZoneMap, userPosition, exit, strict) == strict

\* The second findPath call, made only when the first returned null.
RelaxedIfNone(fireZoneMap, userPosition, exit, strict) ==
    IF strict = None
    THEN findPath(fireZoneMap, fireZoneMap, userPosition, exit, TRUE)
    ELSE strict

\* warning stays "" unless the first search failed and the second found a
\* path.
WarningFor(strict, path) ==
    IF strict = None /\ path # None THEN FireZoneWarning ELSE ""

\* The result { path, instructions, warning }, and in map the caller's map
\* after the call.
updateInstructions(map, userPosition, exit) ==
    LET zone == createFireZoneMapRun(map)
        fireZoneMap == zone.fireZoneMap
        strict == findPath(fireZoneMap, fireZoneMap, userPosition, exit, FALSE)
        path == RelaxedIfNone(fireZoneMap, userPosition, exit, strict)
        warning == WarningFor(strict, path)
    IN  IF path # None
        THEN [path |-> path, instructions |-> generateNaturalInstructions(path),
              warning |-> warning, map |-> zone.map]
        ELSE [path |-> None, instructions |-> <<NoPathInstruction>>,
              warning |-> NoSafePathWarning, map |-> zone.map]

\* ------------------------------------------------- layout string <-> map
\* layout.split("|").map((row) => row.split(""))
RECURSIVE SplitRows(_, _, _)
SplitRows(layout, i, row) ==
    IF i > Len(layout) THEN <<row>>
    ELSE IF layout[i] = "|" THEN <<row>> \o SplitRows(layout, i + 1, <<>>)
    ELSE SplitRows(layout, i + 1, Append(row, layout[i]))

parseLayout(layout) == SplitRows(layout, 1, <<>>)

\* map.map((row) => row.join("")).join("|")
RECURSIVE JoinRows(_, _)
JoinRows(map, y) ==
    IF y > Len(map) THEN <<>>
    ELSE IF y = Len(map) THEN map[y]
    ELSE map[y] \o <<"|">> \o JoinRows(map, y + 1)

serializeMap(map) == JoinRows(map, 1)

\* The code under mutation: the path is stamped on every cell but the
\* user's and the exit's, and on the map with the hazard buffer.
RECURSIVE StampPath_OnZoneMap(_, _, _)
StampPath_OnZoneMap(map, path, i) ==
    IF i > Len(path) THEN createFireZoneMap(map)
    ELSE LET pos == path[i]
             rest == StampPath_OnZoneMap(map, path, i + 1)
         IN  IF Cell(map, pos.x, pos.y) # "U" /\ Cell(map, pos.x, pos.y) # "S"
             THEN SetCell(rest, pos.x, pos.y, "P")
             ELSE rest

\* The for loop that stamps "P" on the path cells of the listener's map.
RECURSIVE StampPath(_, _, _)
StampPath(map, path, i) ==
    IF i > Len(path) THEN map
    ELSE LET pos == path[i]
         IN  IF Cell(map, pos.x, pos.y) # "U" /\ Cell(map, pos.x, pos.y) # "S"
                /\ Cell(map, pos.x, pos.y) # "F"
             THEN StampPath(SetCell(map, pos.x, pos.y, "P"), path, i + 1)
             ELSE StampPath(map, path, i + 1)

\* ------------------------------------------------------ exponentialBackoff
RECURSIVE Pow2(_)
Pow2(i) == IF i = 0 THEN 1 ELSE 2 * Pow2(i - 1)

\* The code under mutation: the delay grows by baseDelay per attempt.
DelayFor_Linear(base, i) == base * (i + 1)

\* const delay = baseDelay * Math.pow(2, i)
DelayFor(base, i) == base * Pow2(i)

\* The delay with the default baseDelay, which the listener's call uses.
BackoffDelay(i) == DelayFor(baseDelay, i)

\* if (i === maxRetries - 1) throw error;
LastAttempt(i, max) == i = max - 1

\* ---------------------------------------------------- the snapshot listener
\* The code under mutation: the guard lets every notification through.
AlreadyProcessing_Never(flag) == FALSE

\* if (isProcessing) { ... return; }
AlreadyProcessing(flag) == flag

\* The code under mutation: every layout counts as changed.
LayoutUnchanged_Never(layout, last) == FALSE

\* data.layout === lastProcessedLayout
LayoutUnchanged(layout, last) == last = Some(layout)

\* The code under mutation: the finally block leaves the flag set.
FlagAfterFinally_Stuck == TRUE

\* finally { isProcessing = false; }
FlagAfterFinally == FALSE

ListenerNoPathWarning == "ERROR: No path to exit found. Seek immediate assistance!"

ListenerNoPathInstruction ==
    Instruction("No safe path to exit available. Seek immediate assistance!", 0, "")

\* A document of current_map/info: layout, and the three result fields,
\* each None while the document has no such field.
Doc(layout, warning, instructions, index) ==
    [layout |-> layout, warning |-> warning, instructions |-> instructions,
     currentInstructionIndex |-> index]

\* db...set({ buildingName, floorNumber, layout }): the document replaced.
FreshDoc(layout) == Doc(layout, None, None, None)

\* updatedData; layout is None in the no-path payload, which has no layout
\* field.
Payload(layout, warning, instructions, index) ==
    [layout |-> layout, warning |-> warning, instructions |-> instructions,
     currentInstructionIndex |-> index]

\* The code under mutation: the no-path payload carries the cursor of a
\* found path.
NoPathPayload_CursorZero ==
    Payload(None, ListenerNoPathWarning, <<ListenerNoPathInstruction>>, 0)

\* updatedData of the branch "No path found, even allowing fire zone
\* crossings".
NoPathPayload ==
    Payload(None, ListenerNoPathWarning, <<ListenerNoPathInstruction>>, -1)

\* db...update(updatedData): the fields of the payload written over the
\* stored document, the others kept.
UpdateDoc(doc, updatedData) ==
    Doc(IF updatedData.layout = None THEN doc.layout ELSE updatedData.layout[1],
        Some(updatedData.warning), Some(updatedData.instructions),
        Some(updatedData.currentInstructionIndex))

\* The code under mutation: a layout without user or exit is treated as a
\* layout without a path.
MissingEntity_AsNoPath(layout) ==
    [kind |-> "write", recompute |-> TRUE, last |-> Some(layout),
     updatedData |-> NoPathPayload, path |-> None]

\* The else branch "User or exit not found on the map": the operation logs
\* and returns.
MissingEntity(layout) ==
    [kind |-> "return", recompute |-> TRUE, last |-> Some(layout),
     updatedData |-> None, path |-> None]

\* The body of the retried operation up to its first real wait (the
\* delay(1000) before the sink write), run against the fingerprint last.
\* kind "return": the operation returned without a write; kind "write": it
\* built updatedData and is about to write it.  recompute: the "Layout
\* changed" branch was taken; last: lastProcessedLayout afterwards; path:
\* the path updateInstructions returned (None when it returned none or was
\* not called).
Operation(data, last) ==
    IF data = None
    THEN [kind |-> "return", recompute |-> FALSE, last |-> last, updatedData |-> None,
          path |-> None]
    ELSE IF LayoutUnchanged(data[1].layout, last)
    THEN [kind |-> "return", recompute |-> FALSE, last |-> last, updatedData |-> None,
          path |-> None]
    ELSE LET layout == data[1].layout
             map == parseLayout(layout)
             user == findPosition(map, "U")
             exit == findPosition(map, "S")
         IN  IF user # None /\ exit # None
             THEN LET r == updateInstructions(map, user[1], exit[1])
                  IN  IF r.path # None
                      THEN [kind |-> "write", recompute |-> TRUE, last |-> Some(layout),
                            updatedData |->
                                Payload(Some(serializeMap(StampPath(r.map, r.path, 1))),
                                        r.warning, r.instructions, 0),
                            path |-> r.path]
                      ELSE [kind |-> "write", recompute |-> TRUE, last |-> Some(layout),
                            updatedData |-> NoPathPayload, path |-> None]
             ELSE MissingEntity(layout)

\* The layouts an external writer puts into current_map/info.
ScenarioA == <<"U", ".", ".", "|", ".", ".", ".", "|", ".", ".", "S">>
FireLayout == <<"U", "F", ".", "|", ".", ".", "S">>
WalledLayout == <<"U", "0", ".", "|", "0", ".", "S">>
NoExitLayout == <<"U", ".", ".", "|", ".", ".", ".">>

ExtLayouts == {ScenarioA, FireLayout, WalledLayout, NoExitLayout}

\* ================================================================ state
VARIABLES
    isProcessing,          \* let isProcessing
    lastProcessedLayout,   \* let lastProcessedLayout: None or Some(layout)
    store,                 \* the document current_map/info: None or Some(doc)
    file,                  \* current_map.json: None or Some(payload)
    inbox,                 \* snapshots not yet handed to the listener
    cycles,                \* listener invocations suspended at a wait
    external,              \* number of external writes so far
    ended,                 \* history: the recompute cycle that ended last
    run,                   \* history: the current run of accepted
                           \* notifications that carry the same layout
    dropped,               \* history: notifications dropped by the guard
    hist,                  \* history: recomputes since the last external write
                           \* (counted up to MaxCounted), and whether that
                           \* write found the controller at rest
    grid,        \* planner run: the caller's map
    stage,       \* planner run: "input", "zoned", "strict", "relaxed", "updated"
    zoneRun,     \* planner run: result of createFireZoneMap
    strictRun,   \* planner run: result of findPath, allowFireZone = false
    relaxedRun,  \* planner run: result of findPath, allowFireZone = true
    result,      \* planner run: result of updateInstructions
    written,     \* planner run: updatedLayout, the layout string to be written
    input,       \* planner run: the map as it was handed in (history)
    walk,        \* instruction run: the path handed to generateNaturalInstructions
    told,        \* instruction run: None or Some(the instructions returned)
    bk           \* backoff run: one call of exponentialBackoff, or None

ctlVars ==
    <<isProcessing, lastProcessedLayout, store, file, inbox, cycles, external,
      ended, run, dropped, hist>>

planVars == <<grid, stage, zoneRun, strictRun, relaxedRun, result, written, input>>

genVars == <<walk, told>>

bkVars == <<bk>>

vars == <<ctlVars, planVars, genVars, bkVars>>

\* Module load: the flag is clear, no fingerprint is stored, nothing runs.
CtlIdle ==
    /\ isProcessing = FALSE
    /\ lastProcessedLayout = None
    /\ file = None
    /\ cycles = <<>>
    /\ external = 0
    /\ ended = None
    /\ run = [layout |-> None, accepted |-> 0, recomputes |-> 0, writes |-> 0]
    /\ dropped = 0
    /\ hist = [recomputes |-> 0, clean |-> TRUE]

PlanIdle ==
    /\ grid = None
    /\ input = None
    /\ stage = "off"
    /\ zoneRun = None
    /\ strictRun = None
    /\ relaxedRun = None
    /\ result = None
    /\ written = None

GenIdle ==
    /\ walk = None
    /\ told = None

BkIdle == bk = None

\* ------------------------------------------------- the controller (Spec)
\* The document exists or not when the listener is attached; onSnapshot
\* first delivers the document as it is.
Init ==
    /\ CtlIdle
    /\ store \in {None} \cup {Some(FreshDoc(l)) : l \in ExtLayouts}
    /\ inbox = <<store>>
    /\ PlanIdle
    /\ GenIdle
    /\ BkIdle

\* A listener invocation suspended at its first wait; path is the path its
\* payload was built from and overtaken the layout an external writer put
\* into the document while the invocation was suspended (both history).
NewCycle(data, updatedData, path) ==
    [pc |-> "delay", i |-> 0, data |-> data, updatedData |-> updatedData,
     path |-> path, overtaken |-> None,
     attempts |-> 0, failures |-> 0, persisted |-> FALSE, exported |-> FALSE,
     waited |-> <<>>]

\* History record of a cycle that ended: how (exponentialBackoff "returned"
\* or its error was "caught" and logged by the listener), what its sink
\* writes did, and the payload it built last (None when it built none).
EndRecord(cy, how) ==
    [layout |-> cy.data[1].layout, how |-> how, attempts |-> cy.attempts,
     failures |-> cy.failures, persisted |-> cy.persisted, exported |-> cy.exported,
     waited |-> cy.waited, updatedData |-> cy.updatedData,
     overtaken |-> cy.overtaken]

\* hist after an operation ran: one more recompute when it took the "Layout
\* changed" branch.
Counted(recompute) ==
    IF recompute /\ hist.recomputes < MaxCounted
    THEN [hist EXCEPT !.recomputes = @ + 1]
    ELSE hist

\* The run of same-layout notifications after the listener accepted data.
RunAfter(data, recompute) ==
    LET n == IF recompute THEN 1 ELSE 0
    IN  IF data = None THEN run
        ELSE IF run.layout = Some(data[1].layout)
        THEN [run EXCEPT !.accepted = @ + 1, !.recomputes = @ + n]
        ELSE [layout |-> Some(data[1].layout), accepted |-> 1, recomputes |-> n,
              writes |-> 0]

\* A snapshot is handed to the listener: dropped while the flag is set;
\* otherwise the flag is set and the operation runs (attempt i = 0) up to
\* its first wait, or returns at once, and then the finally block runs.
OnSnapshot ==
    /\ inbox # <<>>
    /\ inbox' = Tail(inbox)
    /\ LET data == Head(inbox)
       IN  IF AlreadyProcessing(isProcessing)
           THEN /\ dropped' = dropped + 1
                /\ UNCHANGED <<isProcessing, lastProcessedLayout, cycles, ended, run,
                               hist>>
           ELSE LET r == Operation(data, lastProcessedLayout)
                IN  /\ dropped' = dropped
                    /\ hist' = Counted(r.recompute)
                    /\ lastProcessedLayout' = r.last
                    /\ run' = RunAfter(data, r.recompute)
                    /\ IF r.kind = "write"
                       THEN /\ isProcessing' = TRUE
                            /\ cycles' = Append(cycles, NewCycle(data, r.updatedData, r.path))
                            /\ ended' = ended
                       ELSE /\ isProcessing' = FlagAfterFinally
                            /\ cycles' = cycles
                            /\ ended' = IF r.recompute
                                        THEN Some(EndRecord(NewCycle(data, None, None), "returned"))
                                        ELSE ended
    /\ UNCHANGED <<store, file, external, planVars, genVars, bkVars>>

\* The catch block of exponentialBackoff for a cycle cy whose attempt threw:
\* on the last attempt the error goes to the listener (catch: logged;
\* finally), otherwise the cycle waits baseDelay * 2^i.
Caught(c, cy) ==
    IF LastAttempt(cy.i, maxRetries)
    THEN /\ cycles' = RemoveAt(cycles, c)
         /\ isProcessing' = FlagAfterFinally
         /\ ended' = Some(EndRecord(cy, "caught"))
    ELSE /\ cycles' = [cycles EXCEPT ![c] =
                          [cy EXCEPT !.pc = "backoff",
                                     !.waited = Append(@, BackoffDelay(cy.i))]]
         /\ UNCHANGED <<isProcessing, ended>>

\* exponentialBackoff returned: the listener's finally block.
Returned(c, cy) ==
    /\ cycles' = RemoveAt(cycles, c)
    /\ isProcessing' = FlagAfterFinally
    /\ ended' = Some(EndRecord(cy, "returned"))

\* delay(1000) is over and db...update(updatedData) succeeds: the document
\* changes, which the listener is notified of.
UpdateOk ==
    \E c \in 1 .. Len(cycles) :
        /\ cycles[c].pc = "delay"
        /\ store # None
        /\ store' = Some(UpdateDoc(store[1], cycles[c].updatedData))
        /\ inbox' = Append(inbox, store')
        /\ cycles' = [cycles EXCEPT ![c] =
                         [@ EXCEPT !.pc = "save", !.attempts = @ + 1,
                                   !.persisted = TRUE]]
        /\ run' = [run EXCEPT !.writes = @ + 1]
        /\ UNCHANGED <<isProcessing, lastProcessedLayout, file, external, ended,
                       dropped, hist, planVars, genVars, bkVars>>

\* delay(1000) is over and db...update(updatedData) throws.
UpdateFail ==
    \E c \in 1 .. Len(cycles) :
        /\ cycles[c].pc = "delay"
        /\ Caught(c, [cycles[c] EXCEPT !.attempts = @ + 1, !.failures = @ + 1])
        /\ run' = [run EXCEPT !.writes = @ + 1]
        /\ UNCHANGED <<lastProcessedLayout, store, file, inbox, external, dropped,
                       hist, planVars, genVars, bkVars>>

\* saveCurrentMapAsJson(updatedData) succeeds; the operation returns.
SaveOk ==
    \E c \in 1 .. Len(cycles) :
        /\ cycles[c].pc = "save"
        /\ file' = Some(cycles[c].updatedData)
        /\ Returned(c, [cycles[c] EXCEPT !.exported = TRUE])
        /\ UNCHANGED <<lastProcessedLayout, store, inbox, external, run, dropped,
                       hist, planVars, genVars, bkVars>>

\* saveCurrentMapAsJson(updatedData) rethrows a file error.
SaveFail ==
    \E c \in 1 .. Len(cycles) :
        /\ cycles[c].pc = "save"
        /\ Caught(c, cycles[c])
        /\ UNCHANGED <<lastProcessedLayout, store, file, inbox, external, run,
                       dropped, hist, planVars, genVars, bkVars>>

\* The backoff timer fires: i++, and the operation runs again on the same
\* snapshot, up to its first wait or to its return.
BackoffElapsed ==
    \E c \in 1 .. Len(cycles) :
        /\ cycles[c].pc = "backoff"
        /\ LET cy == cycles[c]
               r == Operation(cy.data, lastProcessedLayout)
           IN  /\ lastProcessedLayout' = r.last
               /\ run' = [run EXCEPT !.recomputes = @ + (IF r.recompute THEN 1 ELSE 0)]
               /\ hist' = Counted(r.recompute)
               /\ IF r.kind = "write"
                  THEN /\ cycles' = [cycles EXCEPT ![c] =
                                        [cy EXCEPT !.pc = "delay", !.i = @ + 1,
                                                   !.updatedData = r.updatedData,
                                                   !.path = r.path]]
                       /\ UNCHANGED <<isProcessing, ended>>
                  ELSE Returned(c, [cy EXCEPT !.i = @ + 1])
        /\ UNCHANGED <<store, file, inbox, external, dropped, planVars, genVars, bkVars>>

\* POST /update-position (or any other writer) replaces the document.
ExternalWrite ==
    /\ external < MaxExternal
    /\ \E l \in ExtLayouts :
          /\ store' = Some(FreshDoc(l))
          /\ inbox' = Append(inbox, store')
          /\ cycles' = [c \in 1 .. Len(cycles) |->
                           [cycles[c] EXCEPT !.overtaken = Some(l)]]
    /\ external' = external + 1
    /\ hist' = [recomputes |-> 0, clean |-> cycles = <<>> /\ inbox = <<>>]
    /\ UNCHANGED <<isProcessing, lastProcessedLayout, file, ended, run,
                   dropped, planVars, genVars, bkVars>>

Next ==
    \/ OnSnapshot
    \/ UpdateOk
    \/ UpdateFail
    \/ SaveOk
    \/ SaveFail
    \/ BackoffElapsed
    \/ ExternalWrite

Spec == Init /\ [][Next]_vars

\* Timers fire and the promises of the Firestore and file calls settle:
\* a suspended cycle is resumed.  Nothing is assumed about when a snapshot
\* is handed to the listener.
FairSpec ==
    /\ Spec
    /\ WF_vars(UpdateOk \/ UpdateFail)
    /\ WF_vars(SaveOk \/ SaveFail)
    /\ WF_vars(BackoffElapsed)

\* ---------------------------------------- exponentialBackoff (BackoffSpec)
\* One call exponentialBackoff(operation, maxRetries, baseDelay) with an
\* operation that returns a value or throws an error each time it is
\* invoked.  calls lists the invocations so far, each [ok, value]; waited
\* lists the delays waited so far; outcome is None while the call runs,
\* then Some([kind, value]) with kind "returned" or "thrown".
OperationValues == {"v1", "v2"}
OperationErrors == {"e1", "e2"}
BaseDelays == {baseDelay, 1}

BackoffInit ==
    /\ \E max \in 1 .. MaxRetriesArg : \E base \in BaseDelays :
          bk = [pc |-> "call", i |-> 0, maxRetries |-> max, baseDelay |-> base,
                calls |-> <<>>, waited |-> <<>>, outcome |-> None]
    /\ CtlIdle
    /\ store = None
    /\ inbox = <<>>
    /\ PlanIdle
    /\ GenIdle

\* return await operation(): the operation returns a value.
OperationReturns ==
    /\ bk.pc = "call"
    /\ \E v \in OperationValues :
          bk' = [bk EXCEPT !.pc = "done",
                           !.calls = Append(@, [ok |-> TRUE, value |-> v]),
                           !.outcome = Some([kind |-> "returned", value |-> v])]
    /\ UNCHANGED <<ctlVars, planVars, genVars>>

\* The operation throws: the catch block rethrows on the last attempt and
\* otherwise starts the timer.
OperationThrows ==
    /\ bk.pc = "call"
    /\ \E e \in OperationErrors :
          LET called == [bk EXCEPT !.calls = Append(@, [ok |-> FALSE, value |-> e])]
          IN  IF LastAttempt(bk.i, bk.maxRetries)
              THEN bk' = [called EXCEPT !.pc = "done",
                                        !.outcome = Some([kind |-> "thrown",
                                                          value |-> e])]
              ELSE bk' = [called EXCEPT !.pc = "wait",
                                        !.waited = Append(@, DelayFor(bk.baseDelay,
                                                                      bk.i))]
    /\ UNCHANGED <<ctlVars, planVars, genVars>>

\* The timer fires: i++ and the next iteration of the for loop.
TimerFires ==
    /\ bk.pc = "wait"
    /\ bk' = [bk EXCEPT !.pc = "call", !.i = @ + 1]
    /\ UNCHANGED <<ctlVars, planVars, genVars>>

BackoffNext ==
    \/ OperationReturns
    \/ OperationThrows
    \/ TimerFires

BackoffSpec == BackoffInit /\ [][BackoffNext]_vars

\* =================================================== controller properties
\* A step that hands the head of the inbox to the listener (only OnSnapshot
\* takes from the inbox).
Delivery == inbox # <<>> /\ inbox' = Tail(inbox)

HasUserAndExit(layout) ==
    /\ findPosition(parseLayout(layout), "U") # None
    /\ findPosition(parseLayout(layout), "S") # None

\* C1 as stated: a failed sink write is retried up to maxRetries; a cycle
\* in which a sink write failed ends either with the payload persisted by
\* a later attempt, or after maxRetries failed sink writes with its error
\* caught and logged by the listener.
C1_RetriedUpToMax ==
    (ended # None /\ ended[1].failures >= 1) =>
        \/ ended[1].persisted /\ ended[1].how = "returned"
        \/ /\ ~ended[1].persisted
           /\ ended[1].attempts = maxRetries
           /\ ended[1].how = "caught"

\* C2 (single-flight): at most one cycle is in progress, and exactly while
\* the flag is set; a notification handed over while the flag is set starts
\* no cycle, writes nothing and leaves the flag and the fingerprint alone.
C2_SingleFlight ==
    /\ [](Len(cycles) <= 1 /\ (isProcessing <=> cycles # <<>>))
    /\ [][(Delivery /\ isProcessing) =>
              UNCHANGED <<isProcessing, lastProcessedLayout, store, file, cycles,
                          run, ended>>]_vars

\* A notification was dropped while a cycle is still waiting to write.
C2_Witness ==
    /\ dropped >= 1
    /\ Len(cycles) = 1
    /\ cycles[1].pc = "delay"
    /\ cycles[1].attempts = 0

\* C3 as stated: two consecutive accepted notifications with the same
\* layout give exactly one recompute and exactly one payload handed to the
\* sink.
C3_ExactlyOnePayload ==
    (run.accepted >= 2 /\ cycles = <<>>) =>
        (run.recomputes = 1 /\ run.writes = 1)

\* C3 (amended): over a run of consecutive accepted notifications that
\* carry the same layout exactly one recompute is performed, and exactly
\* one payload is handed to the sink when that layout holds a user and an
\* exit cell (none otherwise); handing the layout over again changes
\* neither the fingerprint nor the sink and starts nothing.
C3_Debounce ==
    /\ [](run.layout # None =>
            /\ run.recomputes = 1
            /\ run.writes <= 1
            /\ ~HasUserAndExit(run.layout[1]) => run.writes = 0
            /\ (cycles = <<>> /\ HasUserAndExit(run.layout[1])) => run.writes = 1)
    /\ [][(Delivery /\ Head(inbox) # None /\ run.layout = Some(Head(inbox)[1].layout)) =>
              /\ UNCHANGED <<lastProcessedLayout, store, file, cycles, ended>>
              /\ run'.recomputes = run.recomputes
              /\ run'.writes = run.writes]_vars

\* The same layout was accepted twice and its one payload was written.
C3_Witness ==
    /\ run.accepted >= 2
    /\ run.recomputes = 1
    /\ run.writes = 1
    /\ cycles = <<>>

\* C4: every cycle in progress ends; once it has ended the flag is clear
\* and the fingerprint is the layout it processed, also when its sink write
\* failed; and handing that layout over again after such a cycle starts no
\* recompute.
C4_CycleEnds ==
    /\ (cycles # <<>>) ~> (cycles = <<>>)
    /\ []((cycles = <<>> /\ ended # None) =>
            /\ ~isProcessing
            /\ lastProcessedLayout = Some(ended[1].layout))
    /\ [][(/\ Delivery
           /\ cycles = <<>>
           /\ ended # None
           /\ ended[1].failures >= 1
           /\ Head(inbox) # None
           /\ Head(inbox)[1].layout = ended[1].layout) =>
              /\ UNCHANGED <<cycles, ended, store, lastProcessedLayout>>
              /\ run'.recomputes = run.recomputes]_vars

\* A cycle whose sink write failed has ended and its layout was accepted
\* again afterwards.
C4_Witness ==
    /\ cycles = <<>>
    /\ ended # None
    /\ ended[1].failures >= 1
    /\ ~ended[1].persisted
    /\ run.accepted >= 2
    /\ run.layout = Some(ended[1].layout)

\* ------------------------------------------------ planner runs (PlanSpec)
Cells == {Pos(x, y) : x \in 0 .. MaxW - 1, y \in 0 .. MaxH - 1}

\* The map with the user at u, the exit at s, fire and wall cells as given
\* and floor elsewhere.
BuildMap(u, s, fires, walls) ==
    [y \in 1 .. MaxH |->
        [x \in 1 .. MaxW |->
            LET p == Pos(x - 1, y - 1)
            IN  IF p = u THEN "U"
                ELSE IF p = s THEN "S"
                ELSE IF p \in fires THEN "F"
                ELSE IF p \in walls THEN "0"
                ELSE "."]]

PlanInit ==
    /\ \E u \in Cells : \E s \in Cells \ {u} :
         \E fires \in SUBSET (Cells \ {u, s}) :
           \E walls \in SUBSET (Cells \ ({u, s} \cup fires)) :
              /\ Cardinality(fires) + Cardinality(walls) <= MaxObstacles
              /\ grid = BuildMap(u, s, fires, walls)
    /\ input = grid
    /\ stage = "input"
    /\ zoneRun = None
    /\ strictRun = None
    /\ relaxedRun = None
    /\ result = None
    /\ written = None
    /\ CtlIdle
    /\ store = None
    /\ inbox = <<>>
    /\ GenIdle
    /\ BkIdle

UserOf(map) == findPosition(map, "U")[1]
ExitOf(map) == findPosition(map, "S")[1]

RunCreateFireZoneMap ==
    /\ stage = "input"
    /\ zoneRun' = createFireZoneMapRun(grid)
    /\ grid' = zoneRun'.map
    /\ stage' = "zoned"
    /\ UNCHANGED <<strictRun, relaxedRun, result, written, input, ctlVars, genVars,
                   bkVars>>

RunFindPathStrict ==
    /\ stage = "zoned"
    /\ strictRun' = findPathRun(zoneRun.fireZoneMap, zoneRun.fireZoneMap,
                                UserOf(grid), ExitOf(grid), FALSE)
    /\ stage' = "strict"
    /\ UNCHANGED <<grid, zoneRun, relaxedRun, result, written, input, ctlVars,
                   genVars, bkVars>>

RunFindPathRelaxed ==
    /\ stage = "strict"
    /\ relaxedRun' = findPathRun(zoneRun.fireZoneMap, zoneRun.fireZoneMap,
                                 UserOf(grid), ExitOf(grid), TRUE)
    /\ stage' = "relaxed"
    /\ UNCHANGED <<grid, zoneRun, strictRun, result, written, input, ctlVars,
                   genVars, bkVars>>

RunUpdateInstructions ==
    /\ stage = "relaxed"
    /\ result' = updateInstructions(grid, UserOf(grid), ExitOf(grid))
    /\ stage' = "updated"
    /\ UNCHANGED <<grid, zoneRun, strictRun, relaxedRun, written, input, ctlVars,
                   genVars, bkVars>>

\* The listener's branch if (path): the path is stamped on the listener's
\* map and the map is joined into updatedLayout.
RunStampPath ==
    /\ stage = "updated"
    /\ result.path # None
    /\ grid' = StampPath(result.map, result.path, 1)
    /\ written' = Some(serializeMap(grid'))
    /\ stage' = "stamped"
    /\ UNCHANGED <<zoneRun, strictRun, relaxedRun, result, input, ctlVars, genVars,
                   bkVars>>

PlanNext ==
    \/ RunCreateFireZoneMap
    \/ RunFindPathStrict
    \/ RunFindPathRelaxed
    \/ RunUpdateInstructions
    \/ RunStampPath

PlanSpec == PlanInit /\ [][PlanNext]_vars

\* ------------------------------------------- instruction runs (GenSpec)
\* The position one unit step from p in direction d, by the coordinate
\* convention of getDirection.
StepTo(p, d) ==
    CASE d = "east" -> Pos(p.x + 1, p.y)
      [] d = "west" -> Pos(p.x - 1, p.y)
      [] d = "south" -> Pos(p.x, p.y + 1)
      [] d = "north" -> Pos(p.x, p.y - 1)

\* The path that starts at p and takes the steps of dirs from index i on.
RECURSIVE WalkFrom(_, _, _)
WalkFrom(p, dirs, i) ==
    IF i > Len(dirs) THEN <<p>>
    ELSE <<p>> \o WalkFrom(StepTo(p, dirs[i]), dirs, i + 1)

\* Every path of 0 .. MaxSteps unit steps from the origin, turning and
\* reversing freely.
Walks ==
    {WalkFrom(Pos(0, 0), dirs, 1) :
        dirs \in UNION {[1 .. n -> {"north", "east", "south", "west"}] :
                           n \in 0 .. MaxSteps}}

GenInit ==
    /\ walk \in Walks
    /\ told = None
    /\ CtlIdle
    /\ store = None
    /\ inbox = <<>>
    /\ PlanIdle
    /\ BkIdle

RunGenerateNaturalInstructions ==
    /\ told = None
    /\ told' = Some(generateNaturalInstructions(walk))
    /\ UNCHANGED <<walk, ctlVars, planVars, bkVars>>

GenNext == RunGenerateNaturalInstructions

GenSpec == GenInit /\ [][GenNext]_vars

\* ====================================================== planner properties
\* Reference definitions, independent of the search: the hazard ring by
\* Chebyshev distance on the input map, and breadth-first layers.
InBounds(map, p) == p.x >= 0 /\ p.x < Len(map[1]) /\ p.y >= 0 /\ p.y < Len(map)

HazardCell(map, p) ==
    /\ Cell(map, p.x, p.y) \notin {"F", "0"}
    /\ \E q \in Cells :
          /\ Cell(map, q.x, q.y) = "F"
          /\ Abs(q.x - p.x) <= 1
          /\ Abs(q.y - p.y) <= 1

HazardCells(map) == {p \in Cells : HazardCell(map, p)}

Enterable(map, p, allowHazard) ==
    /\ InBounds(map, p)
    /\ Cell(map, p.x, p.y) \notin {"F", "0"}
    /\ allowHazard \/ ~HazardCell(map, p)

\* The cells a route may enter.
EnterableCells(map, allowHazard) ==
    {p \in Cells : Cell(map, p.x, p.y) \notin {"F", "0"}}
        \ (IF allowHazard THEN {} ELSE HazardCells(map))

Adjacent(p, q) == Abs(p.x - q.x) + Abs(p.y - q.y) = 1

Min(S) == CHOOSE m \in S : \A n \in S : m <= n

Max(S) == CHOOSE m \in S : \A n \in S : m >= n

\* layer: the cells at breadth-first distance d from the start, each with
\* the fewest and the most hazard cells entered over the shortest routes to
\* it; free: the enterable cells not reached yet; hazard: the hazard cells.
\* The answer for the goal, or len = -1 when no route exists.
RECURSIVE Layers(_, _, _, _, _)
Layers(layer, free, hazard, goal, d) ==
    IF goal \in DOMAIN layer
    THEN [len |-> d, fewest |-> layer[goal][1], most |-> layer[goal][2]]
    ELSE IF DOMAIN layer = {} THEN [len |-> -1, fewest |-> -1, most |-> -1]
    ELSE LET next == {p \in free : \E q \in DOMAIN layer : Adjacent(p, q)}
             nl == [p \in next |->
                      LET from == {q \in DOMAIN layer : Adjacent(p, q)}
                          z == IF p \in hazard THEN 1 ELSE 0
                      IN  <<z + Min({layer[q][1] : q \in from}),
                            z + Max({layer[q][2] : q \in from})>>]
         IN  Layers(nl, free \ next, hazard, goal, d + 1)

Shortest(map, start, goal, allowHazard) ==
    Layers([p \in {start} |-> <<0, 0>>],
           EnterableCells(map, allowHazard) \ {start}, HazardCells(map), goal, 0)

Steps(path) == Len(path) - 1

HazardEntered(map, path) ==
    Cardinality({i \in 2 .. Len(path) : HazardCell(map, path[i])})

WellFormed(map, path, start, goal) ==
    /\ Len(path) >= 1
    /\ path[1] = start
    /\ path[Len(path)] = goal
    /\ \A i \in 1 .. Len(path) - 1 : Adjacent(path[i], path[i + 1])
    /\ \A i \in 2 .. Len(path) : Enterable(map, path[i], TRUE)
    /\ \A i, j \in 1 .. Len(path) : i # j => path[i] # path[j]

\* The stage at which each result has just been produced; later stages
\* leave it unchanged.
StrictDone == stage = "strict"
RelaxedDone == stage = "relaxed"

\* C5 (optimality): whenever a route from user to exit exists that enters
\* no wall, fire or hazard-buffer cell, findPath with allowFireZone = false
\* returns a path, and its number of steps is the breadth-first distance.
C5_StrictOptimal ==
    StrictDone =>
        LET best == Shortest(input, UserOf(input), ExitOf(input), FALSE)
        IN  best.len >= 0 =>
                /\ strictRun.path # None
                /\ Steps(strictRun.path) = best.len

\* A strict search that had to leave the straight line: the shortest route
\* is longer than the Manhattan distance.
C5_Witness ==
    /\ StrictDone
    /\ strictRun.path # None
    /\ Steps(strictRun.path) > calculateHeuristic(UserOf(input), ExitOf(input))

\* C6 (tie-break): the path returned by findPath with allowFireZone = true
\* has the shortest length, and among the routes of that length it enters
\* the fewest hazard-buffer cells.
C6_FewestCrossings ==
    RelaxedDone =>
        LET best == Shortest(input, UserOf(input), ExitOf(input), TRUE)
        IN  relaxedRun.path # None =>
                /\ Steps(relaxedRun.path) = best.len
                /\ HazardEntered(input, relaxedRun.path) = best.fewest

\* A relaxed search with a real choice: shortest routes with different
\* numbers of hazard cells exist and the returned one enters some.
C6_Witness ==
    /\ RelaxedDone
    /\ relaxedRun.path # None
    /\ HazardEntered(input, relaxedRun.path) >= 1
    /\ LET best == Shortest(input, UserOf(input), ExitOf(input), TRUE)
       IN  best.most > best.fewest

\* C7 as stated: a path returned with allowFireZone = false holds no
\* hazard-buffer cell at any position, the start included.
C7_NoHazardAnywhere ==
    (StrictDone /\ strictRun.path # None) =>
        \A i \in 1 .. Len(strictRun.path) : ~HazardCell(input, strictRun.path[i])

\* C7 (amended): a path returned with allowFireZone = false holds no
\* hazard-buffer cell at any position after the start (the goal included),
\* so a result with an empty warning never moves the occupant onto a
\* hazard-buffer cell.
C7_NoHazardEntered ==
    /\ (StrictDone /\ strictRun.path # None) =>
          \A i \in 2 .. Len(strictRun.path) : ~HazardCell(input, strictRun.path[i])
    /\ (stage = "updated" /\ result.path # None /\ result.warning = "") =>
          \A i \in 2 .. Len(result.path) : ~HazardCell(input, result.path[i])

\* A strict path that leaves a hazard-buffer start cell and walks past the
\* hazard ring.
C7_Witness ==
    /\ StrictDone
    /\ strictRun.path # None
    /\ Steps(strictRun.path) >= 2
    /\ HazardCell(input, strictRun.path[1])

\* C8 (fallback): with "hazard-free" read as entering no hazard-buffer cell
\* after the user's own cell: a hazard-free route exists => a path with an
\* empty warning; none exists but a route through hazard cells does => a
\* well-formed path with a non-empty warning; no route at all => the
\* no-path result with a null path.
C8_Fallback ==
    stage = "updated" =>
        LET u == UserOf(input)
            e == ExitOf(input)
            free == Shortest(input, u, e, FALSE).len >= 0
            any == Shortest(input, u, e, TRUE).len >= 0
        IN  /\ free => (result.path # None /\ result.warning = "")
            /\ (~free /\ any) =>
                  /\ result.path # None
                  /\ WellFormed(input, result.path, u, e)
                  /\ result.warning # ""
            /\ ~any =>
                  /\ result.path = None
                  /\ result.instructions = <<NoPathInstruction>>

\* The fallback case proper: a warned path that enters a hazard cell.
C8_Witness ==
    /\ stage = "updated"
    /\ result.path # None
    /\ result.warning = FireZoneWarning
    /\ HazardEntered(input, result.path) >= 1

\* C9 (hazard expansion exactness): in the map createFireZoneMap returns a
\* cell is "Z" exactly when it is within Chebyshev distance 1 of a fire cell
\* of the input and is neither fire nor wall; every other cell keeps its
\* input code; and the caller's map is what it was before the call.
C9_ZoneExact ==
    stage = "zoned" =>
        /\ \A p \in Cells :
              Cell(zoneRun.fireZoneMap, p.x, p.y) =
                  IF HazardCell(input, p) THEN "Z" ELSE Cell(input, p.x, p.y)
        /\ grid = input

\* An expansion next to a wall, with a cell left alone beyond the ring.
C9_Witness ==
    /\ stage = "zoned"
    /\ \E p, q, r \in Cells :
          /\ Cell(input, p.x, p.y) = "F"
          /\ Cell(input, q.x, q.y) = "0"
          /\ Abs(p.x - q.x) <= 1 /\ Abs(p.y - q.y) <= 1
          /\ Cell(input, r.x, r.y) = "."
          /\ Cell(zoneRun.fireZoneMap, r.x, r.y) = "."
    /\ \E p \in Cells : Cell(zoneRun.fireZoneMap, p.x, p.y) = "Z"

\* C10 (well-formed or null): every result of findPath, strict or relaxed,
\* is either the null no-path value or a path from the start to the goal by
\* unit north/south/east/west steps over in-bounds cells that are neither
\* wall nor fire, with no position twice.
C10_WellFormedOrNull ==
    /\ RelaxedDone =>
          \/ strictRun.path = None
          \/ WellFormed(input, strictRun.path, UserOf(input), ExitOf(input))
    /\ RelaxedDone =>
          \/ relaxedRun.path = None
          \/ WellFormed(input, relaxedRun.path, UserOf(input), ExitOf(input))

\* A returned path that bends, and a search that returned null.
C10_Witness ==
    /\ stage = "relaxed"
    /\ strictRun.path = None
    /\ relaxedRun.path # None
    /\ Steps(relaxedRun.path) >= 3
    /\ \E i \in 2 .. Len(relaxedRun.path) - 1 :
          getDirection(relaxedRun.path[i - 1], relaxedRun.path[i])
              # getDirection(relaxedRun.path[i], relaxedRun.path[i + 1])

\* The positions of a sequence are pairwise different.
Distinct(seq) == Cardinality({seq[i] : i \in 1 .. Len(seq)}) = Len(seq)

CellCount(map) == Len(map) * Len(map[1])

\* One finished search: it returned null or a path; every iteration that did
\* not return finalized one cell that had not been finalized before; the
\* frontier never held two nodes of one cell nor a finalized cell; and the
\* number of expansions is at most the number of cells.
SearchTotal(map, r) ==
    /\ r.path = None \/ Len(r.path) >= 1
    /\ r.sound
    /\ Distinct(r.finalized)
    /\ r.expanded = Len(r.finalized)
    /\ r.expanded <= CellCount(map)

\* C11 (totality): findPath, strict or relaxed, ends on every map with
\* null or a path; each loop iteration finalizes one cell, no finalized cell
\* comes back to the frontier, the frontier holds at most one node per cell,
\* and the number of expansions is at most the number of cells.
C11_Total ==
    RelaxedDone => (SearchTotal(input, strictRun) /\ SearchTotal(input, relaxedRun))

\* A strict search that exhausted the frontier after several expansions and
\* a relaxed search that found the exit after several.
C11_Witness ==
    /\ RelaxedDone
    /\ strictRun.path = None
    /\ strictRun.expanded >= 2
    /\ relaxedRun.path # None
    /\ relaxedRun.expanded >= 3

\* =========================================== controller properties, part 2
\* Reference definitions on a layout, independent of the search.
CellsOf(map) == {Pos(x, y) : x \in 0 .. Len(map[1]) - 1, y \in 0 .. Len(map) - 1}

\* The cells reachable from the cells in reached by unit steps over cells
\* of free.
RECURSIVE Flood(_, _)
Flood(reached, free) ==
    LET next == {p \in free \ reached : \E q \in reached : Adjacent(p, q)}
    IN  IF next = {} THEN reached ELSE Flood(reached \cup next, free)

\* Some route leads from the user cell to the exit cell over cells that are
\* neither wall nor fire.
RouteExists(layout) ==
    LET map == parseLayout(layout)
        u == findPosition(map, "U")[1]
        e == findPosition(map, "S")[1]
    IN  e \in Flood({u}, {p \in CellsOf(map) : Cell(map, p.x, p.y) \notin {"F", "0"}})

\* What a cycle on the layout may hand to the sink: without a route the
\* payload with the no-path error warning, one fixed error instruction,
\* cursor -1 and no layout field; with a route a payload with a layout and
\* cursor 0.
PayloadFits(layout, updatedData) ==
    IF RouteExists(layout)
    THEN /\ updatedData.currentInstructionIndex = 0
         /\ updatedData.layout # None
    ELSE /\ updatedData.currentInstructionIndex = -1
         /\ updatedData.layout = None
         /\ updatedData.warning =
                "ERROR: No path to exit found. Seek immediate assistance!"
         /\ Len(updatedData.instructions) = 1
         /\ updatedData.instructions[1].text =
                "No safe path to exit available. Seek immediate assistance!"

\* C12 (no path is not a failure): a cycle on a layout with a user and an
\* exit but no route between them builds the no-path payload (error
\* warning, one fixed error instruction, cursor -1), hands it to the sink
\* exactly once, and when that write succeeds the cycle ends by a normal
\* return with the payload persisted; a cycle on a layout with a route
\* builds a payload with cursor 0.
C12_NoPathPayload ==
    /\ [](\A c \in 1 .. Len(cycles) :
            PayloadFits(cycles[c].data[1].layout, cycles[c].updatedData))
    /\ []((ended # None /\ HasUserAndExit(ended[1].layout)) =>
            /\ PayloadFits(ended[1].layout, ended[1].updatedData)
            /\ ended[1].attempts = 1
            /\ ended[1].failures = 0 =>
                  (ended[1].persisted /\ ended[1].how = "returned"))
    /\ [][(/\ cycles # <<>>
           /\ cycles' # <<>>
           /\ ~cycles[1].persisted
           /\ cycles'[1].persisted) =>
              /\ store'[1].currentInstructionIndex =
                     Some(cycles[1].updatedData.currentInstructionIndex)
              /\ store'[1].warning = Some(cycles[1].updatedData.warning)
              /\ store'[1].instructions = Some(cycles[1].updatedData.instructions)
              /\ ~RouteExists(cycles[1].data[1].layout) =>
                    store'[1].layout = store[1].layout]_vars

\* A cycle on the walled-in layout has ended with its no-path payload in
\* the store.
C12_Witness ==
    /\ cycles = <<>>
    /\ ended # None
    /\ HasUserAndExit(ended[1].layout)
    /\ ~RouteExists(ended[1].layout)
    /\ ended[1].persisted
    /\ ended[1].how = "returned"
    /\ store # None
    /\ store[1].currentInstructionIndex = Some(-1)

\* C13 (missing entity): a notification accepted with a layout that has no
\* user cell or no exit cell starts no cycle, builds no payload, leaves the
\* store and the exported file as they are, ends by a normal return of
\* exponentialBackoff (nothing reaches the listener's catch) and leaves
\* the flag clear.
C13_MissingEntity ==
    /\ [][(/\ Delivery
           /\ ~isProcessing
           /\ Head(inbox) # None
           /\ ~HasUserAndExit(Head(inbox)[1].layout)) =>
              /\ UNCHANGED <<store, file, cycles>>
              /\ run'.writes = IF run'.layout = run.layout THEN run.writes ELSE 0
              /\ isProcessing' = FALSE]_vars
    /\ []((ended # None /\ ~HasUserAndExit(ended[1].layout)) =>
            /\ ended[1].how = "returned"
            /\ ended[1].updatedData = None
            /\ ended[1].attempts = 0
            /\ ~ended[1].persisted
            /\ ~ended[1].exported)

\* The layout without an exit was recomputed: the controller is idle again
\* and the document and the file are untouched.
C13_Witness ==
    /\ ended # None
    /\ ~HasUserAndExit(ended[1].layout)
    /\ lastProcessedLayout = Some(ended[1].layout)
    /\ ~isProcessing
    /\ cycles = <<>>
    /\ store = Some(FreshDoc(ended[1].layout))
    /\ file = None

\* =================================================== instruction properties
\* Reference definitions, independent of the loop of
\* generateNaturalInstructions: the steps of a path as positions in the
\* cycle north (0), east (1), south (2), west (3), and its maximal runs.
Heading(p, q) ==
    CASE q.y = p.y - 1 -> 0
      [] q.x = p.x + 1 -> 1
      [] q.y = p.y + 1 -> 2
      [] q.x = p.x - 1 -> 3

\* The steps at which a maximal run of equal headings starts.
RunStarts(path) ==
    {i \in 1 .. Len(path) - 1 :
        i = 1 \/ Heading(path[i], path[i + 1]) # Heading(path[i - 1], path[i])}

\* The step at which the j-th run starts.
RunStart(path, j) ==
    CHOOSE b \in RunStarts(path) :
        Cardinality({c \in RunStarts(path) : c < b}) = j - 1

\* The step after the last step of the j-th run.
RunEnd(path, j) ==
    IF j = Cardinality(RunStarts(path)) THEN Len(path) ELSE RunStart(path, j + 1)

TurnName(k) ==
    CASE k = 1 -> "right"
      [] k = 2 -> "around"
      [] k = 3 -> "left"

\* The instruction expected for the j-th run.
RunInstruction(path, j) ==
    LET a == RunStart(path, j)
        b == RunEnd(path, j)
    IN  [text |-> "Go straight",
         meters |-> 10 * (b - a),
         turn |-> IF j = Cardinality(RunStarts(path)) THEN ""
                  ELSE TurnName((Heading(path[b], path[b + 1])
                                 - Heading(path[a], path[a + 1]) + 4) % 4)]

\* C14 (instruction grouping): for a path of at least two positions the
\* instructions are one "Go straight" per maximal run of equal steps, in
\* path order, with 10 meters per step of the run, each run but the last
\* annotated with the turn to the next run (right +1, around +2, left +3 in
\* the cycle north, east, south, west), the last with no turn, followed by
\* the closing instruction as the final element.
C14_RunsAndTurns ==
    (told # None /\ Len(walk) >= 2) =>
        LET k == Cardinality(RunStarts(walk))
        IN  /\ Len(told[1]) = k + 1
            /\ \A j \in 1 .. k : told[1][j] = RunInstruction(walk, j)
            /\ told[1][k + 1].text = "You have reached the exit"
            /\ told[1][k + 1].turn = ""

\* Instructions for a path with a right turn, a left turn and a reversal,
\* and a run of more than one step.
C14_Witness ==
    /\ told # None
    /\ Len(walk) >= 2
    /\ \E i, j, k \in 1 .. Len(told[1]) :
          /\ told[1][i].turn = "right"
          /\ told[1][j].turn = "left"
          /\ told[1][k].turn = "around"
    /\ \E i \in 1 .. Len(told[1]) : told[1][i].meters >= 20

\* C15 as stated: for the path of the single position where start equals
\* goal the result is the closing instruction alone, with no zero-distance
\* "Go straight".
C15_OnlyClosing ==
    (told # None /\ Len(walk) = 1) => told[1] = <<ReachedExit>>

\* =========================================== controller properties, part 3
\* C16 (scenario A): a cycle on the layout U..|...|..S builds its payload
\* from a path found by the strict search (empty warning) that has 4 steps,
\* and the instructions are exactly: 20 meters (heading east) and turn
\* right, 20 meters (heading south) with no turn, and the closing
\* instruction.
C16_ScenarioA ==
    \A c \in 1 .. Len(cycles) :
        cycles[c].data[1].layout = ScenarioA =>
            /\ cycles[c].path # None
            /\ Steps(cycles[c].path) = 4
            /\ cycles[c].updatedData.warning = ""
            /\ Heading(cycles[c].path[1], cycles[c].path[2]) = 1
            /\ Heading(cycles[c].path[3], cycles[c].path[4]) = 2
            /\ cycles[c].updatedData.instructions =
                  << [text |-> "Go straight", meters |-> 20, turn |-> "right"],
                     [text |-> "Go straight", meters |-> 20, turn |-> ""],
                     [text |-> "You have reached the exit", meters |-> 0, turn |-> ""] >>

\* A cycle on scenario A has written its payload.
C16_Witness ==
    /\ Len(cycles) = 1
    /\ cycles[1].data[1].layout = ScenarioA
    /\ cycles[1].persisted
    /\ store # None
    /\ store[1].instructions = Some(cycles[1].updatedData.instructions)

\* ======================================================= backoff properties
\* 2^n, by the table (the exponents the bounds allow).
TwoToThe(n) == <<1, 2, 4, 8, 16, 32, 64, 128>>[n + 1]

\* What holds of every call of exponentialBackoff whatever the delays are:
\* at most maxRetries invocations; every invocation but the last one made
\* threw; a returned call returns the value of its last invocation, the
\* first that succeeded; a call throws only after maxRetries invocations
\* that all threw, and throws the error of the last; one delay was waited
\* after each failed invocation but the maxRetries-th.
BackoffAttempts ==
    /\ Len(bk.calls) <= bk.maxRetries
    /\ \A k \in 1 .. Len(bk.calls) - 1 : ~bk.calls[k].ok
    /\ bk.pc = "call" => (bk.outcome = None /\ Len(bk.calls) = bk.i)
    /\ bk.pc = "wait" => (bk.outcome = None /\ Len(bk.calls) = bk.i + 1)
    /\ bk.outcome # None =>
          /\ bk.pc = "done"
          /\ Len(bk.calls) >= 1
          /\ bk.outcome[1].value = bk.calls[Len(bk.calls)].value
          /\ (bk.outcome[1].kind = "returned") = bk.calls[Len(bk.calls)].ok
          /\ bk.outcome[1].kind = "thrown" => Len(bk.calls) = bk.maxRetries
    /\ Len(bk.waited) =
          Cardinality({k \in 1 .. Len(bk.calls) :
                          ~bk.calls[k].ok /\ k < bk.maxRetries})

\* C17 as stated: the delay before attempt i is baseDelay * 2^i, with the
\* attempts counted from 0 as the loop does or from 1.  (waited[k] is the
\* delay before the attempt with loop index k, the (k + 1)-th attempt.)
C17_DelayBeforeAttempt ==
    BkIdle \/
    /\ BackoffAttempts
    /\ \/ \A k \in 1 .. Len(bk.waited) :
             bk.waited[k] = bk.baseDelay * TwoToThe(k)
       \/ \A k \in 1 .. Len(bk.waited) :
             bk.waited[k] = bk.baseDelay * TwoToThe(k + 1)

\* C17 (amended): at most maxRetries invocations, the call stops at and
\* returns the result of the first successful one and rethrows the last
\* error after maxRetries consecutive failures; the delay waited after the
\* failed attempt with loop index i (counted from 0), that is before the
\* attempt with index i + 1, is baseDelay * 2^i.
C17_Backoff ==
    BkIdle \/
    /\ BackoffAttempts
    /\ \A k \in 1 .. Len(bk.waited) :
          bk.waited[k] = bk.baseDelay * TwoToThe(k - 1)

\* A call with the default parameters that threw after five failures and
\* four delays.
C17_Witness ==
    /\ ~BkIdle
    /\ bk.maxRetries = maxRetries
    /\ bk.baseDelay = baseDelay
    /\ bk.outcome # None
    /\ bk.outcome[1].kind = "thrown"
    /\ Len(bk.calls) = maxRetries
    /\ Len(bk.waited) = maxRetries - 1

\* ======================================================= stamping properties
\* C18 (frame of the written layout): the layout to be written, parsed
\* again, holds "P" on the cells of the computed path that held neither
\* user, exit nor fire, and on every other cell the code that was read; so
\* user, exit, fire and wall cells keep their codes, cells off the path are
\* unchanged, and "Z" appears only where the layout read had it.
C18_OnlyPathStamped ==
    stage = "stamped" =>
        LET out == parseLayout(written[1])
            onPath == {result.path[i] : i \in 1 .. Len(result.path)}
        IN  /\ Len(out) = Len(input)
            /\ \A y \in 1 .. Len(input) : Len(out[y]) = Len(input[y])
            /\ \A p \in Cells :
                  /\ Cell(out, p.x, p.y) # Cell(input, p.x, p.y) =>
                        (p \in onPath /\ Cell(out, p.x, p.y) = "P")
                  /\ Cell(input, p.x, p.y) \in {"U", "S", "F", "0"} =>
                        Cell(out, p.x, p.y) = Cell(input, p.x, p.y)
                  /\ (p \in onPath /\ Cell(input, p.x, p.y) \notin {"U", "S", "F", "0"}) =>
                        Cell(out, p.x, p.y) = "P"
                  /\ Cell(out, p.x, p.y) = "Z" => Cell(input, p.x, p.y) = "Z"

\* A warned path through the hazard buffer was stamped next to a fire: some
\* hazard cell on the path, some hazard cell off it.
C18_Witness ==
    /\ stage = "stamped"
    /\ result.warning # ""
    /\ Steps(result.path) >= 3
    /\ \E p, q \in Cells :
          /\ HazardCell(input, p)
          /\ Cell(parseLayout(written[1]), p.x, p.y) = "P"
          /\ HazardCell(input, q)
          /\ Cell(parseLayout(written[1]), q.x, q.y) = "."

\* =========================================== controller properties, part 4
\* Nothing is in flight and no snapshot waits to be handed over.
AtRest == cycles = <<>> /\ inbox = <<>>

WithPathMarkers(layout, base) ==
    /\ Len(layout) = Len(base)
    /\ \A k \in 1 .. Len(base) :
          \/ layout[k] = base[k]
          \/ layout[k] = "P" /\ base[k] \notin {"U", "S", "F", "0", "|"}

\* C20 as stated (no lost update): when the document was written from
\* outside with a layout L2 while a cycle was in progress, that cycle's
\* sink write does not replace L2 in the store by a layout made from the
\* layout the cycle read; and once the controller is at rest after such a
\* cycle the stored layout is L2 or L2 with path markers.
C20_NoLostUpdate ==
    /\ [][(/\ cycles # <<>>
           /\ cycles' # <<>>
           /\ ~cycles[1].persisted
           /\ cycles'[1].persisted
           /\ cycles[1].overtaken # None
           /\ store[1].layout = cycles[1].overtaken[1]) =>
              store'[1].layout = store[1].layout]_vars
    /\ []((AtRest /\ ended # None /\ ended[1].overtaken # None /\ store # None) =>
            WithPathMarkers(store[1].layout, ended[1].overtaken[1]))

====
